---- MODULE Spec2Model ----
(***************************************************************************)
(* A model of MultiArmedBanditExperiment (experimentation/experiment_mab.py):*)
(* Thompson-sampling selection of one variation per get_items request, the *)
(* exposure bookkeeping, item annotation and the two telemetry emissions.  *)
(*                                                                         *)
(* Several get_items calls run concurrently, one per request.  The only    *)
(* state they share is the variations' config (the exposures/conversions   *)
(* counts).  Each request is a frame of local variables, req[r], whose     *)
(* fields come into scope as the code binds them; a step of the model is   *)
(* one access to the shared config or one call of an external collaborator *)
(* (random source, telemetry store, resolver, tracker) followed by the     *)
(* local computation up to the next such point.                            *)
(***************************************************************************)
EXTENDS Integers, Sequences, FiniteSets, TLC

\* ---------------------------------------------------------------- bounds
NumRequests == 2     \* concurrent get_items calls
MaxVariations == 2   \* an experiment has 0..MaxVariations variations
MaxCount == 0        \* a count loaded from the configuration is in 0..MaxCount
ThetaLevels == 1     \* a posterior draw is one of the levels 0..ThetaLevels
MaxItems == 2        \* a resolver returns at most MaxItems items

\* ------------------------------------------------------- program constants
MinVariations == 2   \* get_items: len(self.variations) < 2 is refused
GetDefault == 0      \* config.get('exposures', 0), config.get('conversions', 0)
PriorShape == 1      \* np.random.beta(conversions + 1, exposures + 1)
FirstRank == 1       \* rank = 1 before the annotation loop

Requests == 1..NumRequests
CountKeys == {"exposures", "conversions"}
UserIds == {"", "u1"}            \* "" stands for every falsy user_id (None, '')
NoTracker == "None"              \* tracker=None
Trackers == {NoTracker, "tracker"}
ItemIds == {"x", "y"}
ThetaValues == 0..ThetaLevels

\* What the exceptions of the code are called in the design's taxonomy.
InvalidArgument == "user_id is required"
PreconditionFailed == "does not have 2 or more variations"
ResolverError == "ResolverError"
TrackerError == "TrackerError"

\* Outcomes of the external calls.
PutOutcomes == {"ok", "ClientError", "Exception"}   \* log_table.put_item
LogOutcomes == {"ok", "raise"}                      \* tracker.log_exposure

VARIABLES
    variations,   \* self.variations: index 0..n-1 -> config (a dict of counts)
    initial,      \* the configs as loaded, before any request (never changes)
    req           \* request -> the frame of its get_items call

vars == <<variations, initial, req>>

\* ---------------------------------------------------------------- helpers
\* Sequences of length 0..n over S.
SeqsUpTo(S, n) == UNION {[1..k -> S] : k \in 0..n}

\* An array index -> value of the given length (np.zeros, a Python list).
Arrays(S, n) == [0..(n - 1) -> S]

\* len(self.variations)
VariationCount == Cardinality(DOMAIN variations)

\* The identity fields the base experiment exposes.
experiment == [id |-> "exp-1", feature |-> "home_product_recs",
               name |-> "mab-test", type |-> "mab"]

\* dict.get(key, 0)
Get(config, key) == IF key \in DOMAIN config THEN config[key] ELSE GetDefault

\* The configs a variation can be loaded with: no counts yet, or both counts.
Configs == {<<>>} \cup [CountKeys -> 0..MaxCount]

\* No collaborator has been called and no counter touched.
NoCalls == [put_item |-> 0, increment |-> 0, resolver |-> 0, log_exposure |-> 0]

Raised(e) == [kind |-> "raise", error |-> e]
Returned(items) == [kind |-> "return", items |-> items]

NoException == "none"

\* ------------------------------------------------- get_items: validation
\* Mutants: the user_id check is missing; one variation is accepted.
Validate_NoUserCheck(user_id) ==
    IF VariationCount < MinVariations THEN PreconditionFailed ELSE NoException

Validate_OneArm(user_id) ==
    IF user_id = "" THEN InvalidArgument
    ELSE IF VariationCount < MinVariations - 1 THEN PreconditionFailed
    ELSE NoException

\* Lines 29-32: the exception the two checks raise, if any.
Validate(user_id) ==
    IF user_id = "" THEN InvalidArgument
    ELSE IF VariationCount < MinVariations THEN PreconditionFailed
    ELSE NoException

\* ------------------------------------------- _select_variation_index
\* np.zeros(variation_count)
Zeros == [i \in 0..(VariationCount - 1) |-> 0]

\* np.argmax: scan left to right, keep the first maximum.
RECURSIVE ArgmaxFrom(_, _, _)
ArgmaxFrom(theta, i, best) ==
    IF i \notin DOMAIN theta THEN best
    ELSE IF theta[i] > theta[best] THEN ArgmaxFrom(theta, i + 1, i)
    ELSE ArgmaxFrom(theta, i + 1, best)

\* Mutant: a later draw equal to the maximum replaces it (last index wins).
RECURSIVE ArgmaxLastFrom(_, _, _)
ArgmaxLastFrom(theta, i, best) ==
    IF i \notin DOMAIN theta THEN best
    ELSE IF theta[i] >= theta[best] THEN ArgmaxLastFrom(theta, i + 1, i)
    ELSE ArgmaxLastFrom(theta, i + 1, best)

Argmax_LastWins(theta) == ArgmaxLastFrom(theta, 1, 0)

Argmax(theta) == ArgmaxFrom(theta, 1, 0)

\* Mutant: the two shape parameters are exchanged.
BetaParams_Swapped(exposures, conversions) ==
    [i \in DOMAIN exposures |->
        [a |-> exposures[i] + PriorShape, b |-> conversions[i] + PriorShape]]

\* The shape parameters handed to np.random.beta for variation i (line 109).
BetaParams(exposures, conversions) ==
    [i \in DOMAIN exposures |->
        [a |-> conversions[i] + PriorShape, b |-> exposures[i] + PriorShape]]

\* Mutant: the snapshot's exposures and conversions are exchanged.
SnapshotItem_Swapped(exposures, conversions, theta) ==
    [experiment_id |-> experiment.id, exposures |-> conversions,
     conversions |-> exposures, theta |-> theta]

\* _log_experiment_data (lines 119-134): the item it builds ...
SnapshotItem(exposures, conversions, theta) ==
    [experiment_id |-> experiment.id, exposures |-> exposures,
     conversions |-> conversions, theta |-> theta]

\* ... and the exception that escapes it, given how put_item ended: both a
\* ClientError and any other Exception are caught and logged.
LogExperimentData(put) ==
    IF put = "ok" THEN NoException
    ELSE IF put = "ClientError" THEN NoException
    ELSE NoException

\* Mutant: a failed write is not caught anywhere.
TelemetryWriteError == "TelemetryWriteError"

SnapshotAttempt_Uncaught(put) ==
    IF put = "ok" THEN NoException ELSE TelemetryWriteError

\* Lines 111-114: the call of _log_experiment_data sits in try/except Exception.
SnapshotAttempt(put) ==
    IF LogExperimentData(put) # NoException THEN NoException ELSE NoException

\* ------------------------------------------------ collaborators (base class)
\* _increment_exposure_count: one atomic add on the variation's exposures.
IncrementExposureCount(config) ==
    [k \in DOMAIN config \cup {"exposures"} |->
        IF k = "exposures" THEN Get(config, "exposures") + 1 ELSE config[k]]

\* _create_correlation_id: an identifier made of the tuple's parts.
CreateCorrelationId(user_id, variation_idx, rank) ==
    <<experiment.id, user_id, variation_idx, rank>>

\* --------------------------------------------------- get_items: annotation
\* Mutant: the correlation id is made from the first rank for every item.
ItemExperiment_FirstRankId(user_id, variation_idx, rank) ==
    [id |-> experiment.id, feature |-> experiment.feature,
     name |-> experiment.name, type |-> experiment.type,
     variationIndex |-> variation_idx, resultRank |-> rank,
     correlationId |-> CreateCorrelationId(user_id, variation_idx, FirstRank)]

\* Lines 60-68.
ItemExperiment(user_id, variation_idx, rank) ==
    [id |-> experiment.id, feature |-> experiment.feature,
     name |-> experiment.name, type |-> experiment.type,
     variationIndex |-> variation_idx, resultRank |-> rank,
     correlationId |-> CreateCorrelationId(user_id, variation_idx, rank)]

\* Lines 69-71: item.update({'experiment': item_experiment}).
Update(item, item_experiment) == [experiment |-> item_experiment] @@ item

\* Mutant: the rank is not advanced.
NextRank_Stuck(rank) == rank

\* Line 72: rank += 1.
NextRank(rank) == rank + 1

\* Lines 56-72: the loop over the resolver's items, in their order.
RECURSIVE AnnotateFrom(_, _, _, _)
AnnotateFrom(items, user_id, variation_idx, rank) ==
    IF items = <<>> THEN <<>>
    ELSE <<Update(Head(items), ItemExperiment(user_id, variation_idx, rank))>>
         \o AnnotateFrom(Tail(items), user_id, variation_idx, NextRank(rank))

Annotate(items, user_id, variation_idx) ==
    AnnotateFrom(items, user_id, variation_idx, FirstRank)

\* How a call of variation.resolver.get_items can end: with a list of items
\* or with an exception of the resolver's own.
ResolverOutcomes ==
    {Returned(items) : items \in SeqsUpTo([itemId : ItemIds], MaxItems)}
    \cup {Raised(ResolverError)}

\* Lines 77-91 (the timestamp and the config snapshot are left out).
ExposureEvent(user_id, variation_idx) ==
    [event_type |-> "Experiment Exposure",
     attributes |-> [user_id |-> user_id, experiment |-> experiment,
                     variation_index |-> variation_idx]]

\* Line 93: tracker.log_exposure(event) is called bare, so what it raises
\* escapes get_items.
LogExposure(outcome) == IF outcome = "raise" THEN TrackerError ELSE NoException

\* ------------------------------------------------------------------ state
Init ==
    /\ \E n \in 0..MaxVariations : variations \in Arrays(Configs, n)
    /\ initial = variations
    /\ req = [r \in Requests |-> [pc |-> "idle"]]

\* ---------------------------------------------------------------- actions
\* get_items is called (lines 26-32).
GetItems(r) ==
    /\ req[r].pc = "idle"
    /\ \E user_id \in UserIds, tracker \in Trackers :
        LET e == Validate(user_id) IN
        req' = [req EXCEPT ![r] =
            IF e # NoException
            THEN [pc |-> "done", user_id |-> user_id, tracker |-> tracker,
                  calls |-> NoCalls, result |-> Raised(e)]
            ELSE [pc |-> "read", user_id |-> user_id, tracker |-> tracker,
                  calls |-> NoCalls, i |-> 0,
                  exposures |-> Zeros, conversions |-> Zeros]]
    /\ UNCHANGED <<variations, initial>>

\* One iteration of the loop of lines 103-106.
ReadCounts(r) ==
    /\ req[r].pc = "read"
    /\ req[r].i < VariationCount
    /\ LET i == req[r].i
           config == variations[i]
       IN req' = [req EXCEPT ![r].exposures[i] = Get(config, "exposures"),
                             ![r].conversions[i] = Get(config, "conversions"),
                             ![r].i = i + 1]
    /\ UNCHANGED <<variations, initial>>

\* Lines 108-117: draw theta, attempt the snapshot write, return the argmax.
SelectVariationIndex(r) ==
    /\ req[r].pc = "read"
    /\ req[r].i = VariationCount
    /\ \E theta \in Arrays(ThetaValues, VariationCount), put \in PutOutcomes :
        LET f == req[r]
            e == SnapshotAttempt(put)
            calls == [f.calls EXCEPT !.put_item = @ + 1]
            sampling == [params |-> BetaParams(f.exposures, f.conversions),
                         item |-> SnapshotItem(f.exposures, f.conversions, theta)]
        IN req' = [req EXCEPT ![r] =
            IF e # NoException
            THEN [pc |-> "done", user_id |-> f.user_id, tracker |-> f.tracker,
                  calls |-> calls, put |-> put, result |-> Raised(e)]
            ELSE [pc |-> "increment", user_id |-> f.user_id,
                  tracker |-> f.tracker, calls |-> calls, put |-> put,
                  sampling |-> sampling, variation_idx |-> Argmax(theta)]]
    /\ UNCHANGED <<variations, initial>>

\* Mutant: every variation is incremented.
IncrementExposure_AllArms(r) ==
    /\ req[r].pc = "increment"
    /\ LET f == req[r]
       IN /\ variations' = [v \in DOMAIN variations |->
                                IncrementExposureCount(variations[v])]
          /\ req' = [req EXCEPT ![r] =
                [pc |-> "resolve", user_id |-> f.user_id, tracker |-> f.tracker,
                 calls |-> [f.calls EXCEPT !.increment = @ + 1], put |-> f.put,
                 variation_idx |-> f.variation_idx]]
    /\ UNCHANGED initial

\* Mutant: the first variation is incremented, whichever was selected.
IncrementExposure_FirstArm(r) ==
    /\ req[r].pc = "increment"
    /\ LET f == req[r]
       IN /\ variations' = [variations EXCEPT
                                ![0] = IncrementExposureCount(variations[0])]
          /\ req' = [req EXCEPT ![r] =
                [pc |-> "resolve", user_id |-> f.user_id, tracker |-> f.tracker,
                 calls |-> [f.calls EXCEPT !.increment = @ + 1], put |-> f.put,
                 variation_idx |-> f.variation_idx]]
    /\ UNCHANGED initial

\* Mutant: the count read while sampling is written back, plus one.
IncrementExposure_Stale(r) ==
    /\ req[r].pc = "increment"
    /\ LET f == req[r]
           v == f.variation_idx
           config == variations[v]
       IN /\ variations' = [variations EXCEPT ![v] =
                [k \in DOMAIN config \cup {"exposures"} |->
                    IF k = "exposures" THEN f.sampling.item.exposures[v] + 1
                    ELSE config[k]]]
          /\ req' = [req EXCEPT ![r] =
                [pc |-> "resolve", user_id |-> f.user_id, tracker |-> f.tracker,
                 calls |-> [f.calls EXCEPT !.increment = @ + 1], put |-> f.put,
                 variation_idx |-> v]]
    /\ UNCHANGED initial

\* Line 39.
IncrementExposure(r) ==
    /\ req[r].pc = "increment"
    /\ LET f == req[r]
           v == f.variation_idx
       IN /\ variations' = [variations EXCEPT
                                ![v] = IncrementExposureCount(variations[v])]
          /\ req' = [req EXCEPT ![r] =
                [pc |-> "resolve", user_id |-> f.user_id, tracker |-> f.tracker,
                 calls |-> [f.calls EXCEPT !.increment = @ + 1], put |-> f.put,
                 variation_idx |-> v]]
    /\ UNCHANGED initial

\* Mutant: the resolver's exception is swallowed and an empty list returned.
AfterResolve_Swallowed(f, out) ==
    LET called == [variation |-> f.variation_idx, resolved |-> out]
                  @@ [f EXCEPT !.calls.resolver = @ + 1]
        list == IF out.kind = "raise" THEN <<>> ELSE out.items
        items == Annotate(list, f.user_id, f.variation_idx)
    IN IF f.tracker = NoTracker
       THEN [pc |-> "done", result |-> Returned(items)] @@ called
       ELSE [pc |-> "track", items |-> items] @@ called

\* Mutant: the exposure event is emitted whether or not a tracker was given.
AfterResolve_AlwaysTrack(f, out) ==
    LET called == [variation |-> f.variation_idx, resolved |-> out]
                  @@ [f EXCEPT !.calls.resolver = @ + 1]
    IN IF out.kind = "raise"
       THEN [pc |-> "done", result |-> out] @@ called
       ELSE [pc |-> "track",
             items |-> Annotate(out.items, f.user_id, f.variation_idx)]
            @@ called

\* Mutant: the function returns its items before the tracker is looked at.
AfterResolve_ReturnFirst(f, out) ==
    LET called == [variation |-> f.variation_idx, resolved |-> out]
                  @@ [f EXCEPT !.calls.resolver = @ + 1]
    IN IF out.kind = "raise"
       THEN [pc |-> "done", result |-> out] @@ called
       ELSE [pc |-> "done",
             result |-> Returned(Annotate(out.items, f.user_id,
                                          f.variation_idx))] @@ called

\* Lines 42-74, from the frame f of the call and what the resolver did: the
\* variation of the selected index is looked up (it is named here by its
\* index) and its resolver called; an exception of the resolver escapes
\* get_items as it is; a list is annotated and, without a tracker, returned.
AfterResolve(f, out) ==
    LET called == [variation |-> f.variation_idx, resolved |-> out]
                  @@ [f EXCEPT !.calls.resolver = @ + 1]
    IN IF out.kind = "raise"
       THEN [pc |-> "done", result |-> out] @@ called
       ELSE LET items == Annotate(out.items, f.user_id, f.variation_idx)
            IN IF f.tracker = NoTracker
               THEN [pc |-> "done", result |-> Returned(items)] @@ called
               ELSE [pc |-> "track", items |-> items] @@ called

\* Mutant: when the resolver raises, the exposure increment is taken back.
Resolve_Rollback(r) ==
    /\ req[r].pc = "resolve"
    /\ \E out \in ResolverOutcomes :
        LET v == req[r].variation_idx
            config == variations[v]
        IN /\ req' = [req EXCEPT ![r] = AfterResolve(req[r], out)]
           /\ variations' =
                IF out.kind = "raise"
                THEN [variations EXCEPT ![v] =
                        [config EXCEPT !["exposures"] = @ - 1]]
                ELSE variations
    /\ UNCHANGED initial

\* Line 53, with what follows it up to line 74.
Resolve(r) ==
    /\ req[r].pc = "resolve"
    /\ \E out \in ResolverOutcomes :
        req' = [req EXCEPT ![r] = AfterResolve(req[r], out)]
    /\ UNCHANGED <<variations, initial>>

\* Lines 74-95: the exposure event and the return.
TrackExposure(r) ==
    /\ req[r].pc = "track"
    /\ \E outcome \in LogOutcomes :
        LET f == req[r]
            e == LogExposure(outcome)
            sent == [event |-> ExposureEvent(f.user_id, f.variation_idx),
                     logged |-> outcome,
                     pc |-> "done",
                     calls |-> [f.calls EXCEPT !.log_exposure = @ + 1],
                     result |-> IF e # NoException THEN Raised(e)
                                ELSE Returned(f.items)]
        IN req' = [req EXCEPT ![r] = sent @@ f]
    /\ UNCHANGED <<variations, initial>>

Next ==
    \E r \in Requests :
        \/ GetItems(r)
        \/ ReadCounts(r)
        \/ SelectVariationIndex(r)
        \/ IncrementExposure(r)
        \/ Resolve(r)
        \/ TrackExposure(r)

Spec == Init /\ [][Next]_vars

\* ------------------------------------------------------------- vocabulary
Has(r, field) == field \in DOMAIN req[r]
Done(r) == req[r].pc = "done"
Succeeded(r) == Done(r) /\ req[r].result.kind = "return"
Failed(r) == Done(r) /\ req[r].result.kind = "raise"
Exposures(configs, v) == Get(configs[v], "exposures")

\* The requests that chose variation v and are past line 39.
PastIncrement(v) ==
    {r \in Requests : /\ req[r].pc \in {"resolve", "track", "done"}
                      /\ Has(r, "variation_idx")
                      /\ req[r].variation_idx = v}

\* ------------------------------------------------------------------ claims
\* C1: no exposure update is lost.  In every state, and so after any
\* interleaving of the calls, the exposure count of each variation v is its
\* initial count plus the number of get_items calls that chose v and have
\* executed the increment: each such call adds exactly 1, and N of them add N.
C1_NoLostExposureUpdates ==
    \A v \in DOMAIN variations :
        Exposures(variations, v)
            = Exposures(initial, v) + Cardinality(PastIncrement(v))

\* Two calls in flight together that chose the same variation and have both
\* incremented it.
C1_Witness ==
    \E v \in DOMAIN variations : \E r1, r2 \in PastIncrement(v) :
        r1 # r2 /\ req[r1].pc = "resolve" /\ req[r2].pc = "resolve"

\* C2: a call with an empty user_id ends at once with the "user_id is
\* required" error (InvalidArgument) and has had no side effect: nothing was
\* sampled, no snapshot written, no count incremented, no resolver called, no
\* exposure event emitted.
C2_EmptyUserIdFailsFirst ==
    /\ \A r \in Requests :
        (Has(r, "user_id") /\ req[r].user_id = "") =>
            /\ Done(r)
            /\ req[r].result = Raised(InvalidArgument)
            /\ req[r].calls = NoCalls
            /\ ~Has(r, "put") /\ ~Has(r, "variation_idx")
            /\ ~Has(r, "resolved") /\ ~Has(r, "event")
    /\ (\A r \in Requests : Has(r, "user_id") => req[r].user_id = "")
            => variations = initial

\* An empty user_id was refused on an experiment that has enough variations.
C2_Witness ==
    \E r \in Requests :
        /\ Done(r) /\ req[r].user_id = ""
        /\ VariationCount >= MinVariations

\* C3 as stated: every call on an experiment with fewer than 2 variations
\* fails with PreconditionFailed, no resolver called, no counter incremented.
C3_Original ==
    \A r \in Requests :
        (VariationCount < MinVariations /\ Done(r)) =>
            /\ req[r].result = Raised(PreconditionFailed)
            /\ req[r].calls.resolver = 0
            /\ req[r].calls.increment = 0

\* C3 amended: on an experiment with fewer than 2 variations every call ends
\* at once in an error, with no resolver called and no counter incremented;
\* the error is PreconditionFailed when the user_id is not empty (an empty
\* user_id is refused first, with InvalidArgument).
C3_TooFewVariationsFails ==
    VariationCount < MinVariations =>
        /\ variations = initial
        /\ \A r \in Requests :
            Has(r, "user_id") =>
                /\ Failed(r)
                /\ req[r].calls = NoCalls
                /\ ~Has(r, "resolved")
                /\ req[r].user_id # "" =>
                        req[r].result = Raised(PreconditionFailed)

\* A call with a user_id was refused on an experiment with one variation.
C3_Witness ==
    \E r \in Requests :
        /\ VariationCount = MinVariations - 1
        /\ Done(r) /\ req[r].user_id # ""

\* C4 as stated: when the tracker's log_exposure fails, get_items discards the
\* failure and still returns the annotated items.
C4_TrackerFailureDiscarded ==
    \A r \in Requests :
        (Has(r, "logged") /\ req[r].logged = "raise") =>
            Succeeded(r) /\ req[r].result.items = req[r].items

\* C5: a failed write of the sampling snapshot never raises from get_items
\* and changes nothing: the call goes on with a selected index, an error it
\* ends in is the resolver's or the tracker's, and two calls that differ only
\* in how the write ended select the same index from the same draws, make the
\* same increment and return the same items.
C5_SnapshotFailureHarmless ==
    /\ \A r \in Requests :
        (Has(r, "put") /\ req[r].put # "ok") =>
            /\ Has(r, "variation_idx")
            /\ req[r].pc # "increment" => req[r].calls.increment = 1
            /\ Failed(r) =>
                \/ Has(r, "logged") /\ req[r].logged = "raise"
                \/ /\ Has(r, "resolved")
                   /\ req[r].resolved.kind = "raise"
                   /\ req[r].result = req[r].resolved
    /\ \A r1, r2 \in Requests :
        /\ (/\ req[r1].pc = "increment" /\ req[r2].pc = "increment"
            /\ req[r1].sampling.item.theta = req[r2].sampling.item.theta)
                => req[r1].variation_idx = req[r2].variation_idx
        /\ (/\ Done(r1) /\ Done(r2)
            /\ Has(r1, "resolved") /\ Has(r2, "resolved")
            /\ req[r1].resolved = req[r2].resolved
            /\ req[r1].user_id = req[r2].user_id
            /\ req[r1].tracker = req[r2].tracker
            /\ req[r1].variation_idx = req[r2].variation_idx
            /\ Has(r1, "logged") = Has(r2, "logged")
            /\ Has(r1, "logged") => req[r1].logged = req[r2].logged)
                => /\ req[r1].result = req[r2].result
                   /\ req[r1].calls = req[r2].calls

\* Two calls of the same variation and resolver output returned their items,
\* one after a successful snapshot write and one after a failed write.
C5_Witness ==
    \E r1, r2 \in Requests :
        /\ Succeeded(r1) /\ Succeeded(r2)
        /\ req[r1].put = "ok" /\ req[r2].put # "ok"
        /\ req[r1].variation_idx = req[r2].variation_idx
        /\ req[r1].resolved = req[r2].resolved
        /\ req[r1].result.items # <<>>

\* C6: an exception of the chosen variation's resolver is what get_items
\* raises, unchanged, and no items are returned.
C6_ResolverErrorPropagates ==
    \A r \in Requests :
        (Has(r, "resolved") /\ req[r].resolved.kind = "raise") =>
            /\ Failed(r)
            /\ req[r].result = req[r].resolved
            /\ ~Has(r, "items")
            /\ req[r].calls.log_exposure = 0

\* The resolver of a call that was given a tracker raised.
C6_Witness ==
    \E r \in Requests :
        /\ Has(r, "resolved") /\ req[r].resolved.kind = "raise"
        /\ req[r].tracker # NoTracker

\* C7: a successful response holds the resolver's items in the resolver's
\* order, and the k-th of them carries result rank k: the ranks are 1, 2,
\* ..., the number of items.
C7_RanksFollowResolverOrder ==
    \A r \in Requests :
        Succeeded(r) =>
            LET out == req[r].resolved.items
                items == req[r].result.items
            IN /\ Len(items) = Len(out)
               /\ \A k \in 1..Len(out) :
                    /\ items[k].experiment.resultRank = k
                    /\ \A key \in DOMAIN out[k] : items[k][key] = out[k][key]

\* A response of two different items.
C7_Witness ==
    \E r \in Requests :
        /\ Succeeded(r)
        /\ Len(req[r].result.items) >= 2
        /\ req[r].resolved.items[1] # req[r].resolved.items[2]

\* C8: in a successful response every item's correlation id is the one made
\* from the call's user_id, the chosen variation index and the item's rank,
\* and no two items of the response have the same correlation id.
C8_CorrelationIdsUnique ==
    \A r \in Requests :
        Succeeded(r) =>
            LET items == req[r].result.items
            IN \A j, k \in 1..Len(items) :
                /\ items[k].experiment.correlationId
                     = CreateCorrelationId(req[r].user_id, req[r].variation_idx,
                                           items[k].experiment.resultRank)
                /\ j # k => items[j].experiment.correlationId
                              # items[k].experiment.correlationId

\* A response in which the same item appears twice.
C8_Witness ==
    \E r \in Requests :
        /\ Succeeded(r)
        /\ Len(req[r].result.items) >= 2
        /\ req[r].resolved.items[1] = req[r].resolved.items[2]

\* C9: a call without a tracker emits no exposure event, and when it
\* succeeds its items carry the experiment stamp of the chosen variation and
\* that variation's exposure count has been incremented.
C9_NoTrackerNoEvent ==
    \A r \in Requests :
        (Has(r, "tracker") /\ req[r].tracker = NoTracker) =>
            /\ req[r].calls.log_exposure = 0
            /\ ~Has(r, "event")
            /\ req[r].pc # "track"
            /\ Succeeded(r) =>
                LET v == req[r].variation_idx
                    items == req[r].result.items
                IN /\ req[r].calls.increment = 1
                   /\ Exposures(variations, v) > Exposures(initial, v)
                   /\ Len(items) = Len(req[r].resolved.items)
                   /\ \A k \in 1..Len(items) :
                        /\ "experiment" \in DOMAIN items[k]
                        /\ items[k].experiment.id = experiment.id
                        /\ items[k].experiment.feature = experiment.feature
                        /\ items[k].experiment.name = experiment.name
                        /\ items[k].experiment.type = experiment.type
                        /\ items[k].experiment.variationIndex = v

\* A call without a tracker returned at least one item.
C9_Witness ==
    \E r \in Requests :
        /\ Succeeded(r)
        /\ req[r].tracker = NoTracker
        /\ req[r].result.items # <<>>

\* C10: the index _select_variation_index returns is an index of the
\* variations list at which the sampled theta is largest, and the lowest such
\* index: no draw is greater, and no draw at a lower index is equal.
C10_ArgmaxFirstIndexWins ==
    \A r \in Requests :
        req[r].pc = "increment" =>
            LET theta == req[r].sampling.item.theta
                v == req[r].variation_idx
            IN /\ v \in 0..(VariationCount - 1)
               /\ \A i \in DOMAIN theta :
                    /\ theta[i] <= theta[v]
                    /\ i < v => theta[i] < theta[v]

\* The largest draw was made for more than one variation.
C10_Witness ==
    \E r \in Requests :
        /\ req[r].pc = "increment"
        /\ \E i \in DOMAIN req[r].sampling.item.theta :
            /\ i > req[r].variation_idx
            /\ req[r].sampling.item.theta[i]
                 = req[r].sampling.item.theta[req[r].variation_idx]

\* C12: the steps of a request happen in the order validation, sampling with
\* its snapshot write attempt, exposure increment, resolver call, annotation,
\* exposure event, return.  At every moment a later step has been taken only
\* if every earlier one has; a request that has returned has taken them all,
\* the event included when a tracker was given; and the event is emitted on
\* annotated items and not after the return.
C12_StepOrder ==
    \A r \in Requests :
        Has(r, "calls") =>
            LET c == req[r].calls
            IN /\ c.put_item <= 1 /\ c.increment <= c.put_item
               /\ c.resolver <= c.increment /\ c.log_exposure <= c.resolver
               /\ c # NoCalls =>
                    req[r].user_id # "" /\ VariationCount >= MinVariations
               /\ Has(r, "items") =>
                    /\ c.resolver = 1
                    /\ \A k \in 1..Len(req[r].items) :
                         "experiment" \in DOMAIN req[r].items[k]
               /\ req[r].pc = "track" =>
                    c.log_exposure = 0 /\ ~Has(r, "event") /\ ~Has(r, "result")
               /\ Has(r, "event") =>
                    c.log_exposure = 1 /\ Has(r, "items") /\ Done(r)
               /\ Succeeded(r) =>
                    /\ c.put_item = 1 /\ c.increment = 1 /\ c.resolver = 1
                    /\ req[r].tracker # NoTracker =>
                         /\ Has(r, "event")
                         /\ req[r].result.items = req[r].items

\* A call with a tracker returned items after emitting its exposure event.
C12_Witness ==
    \E r \in Requests :
        /\ Succeeded(r)
        /\ Has(r, "event")
        /\ req[r].result.items # <<>>

\* C13: one variation index serves the whole request.  The index that
\* _select_variation_index returned stays the request's index; the increment
\* step adds 1 to the exposure count of that variation and to no other; the
\* resolver called is that variation's; and the index stamped on every item
\* and the index of the exposure event are that index.
C13_OneVariationIndex ==
    [][\A r \in Requests :
        /\ (Has(r, "variation_idx") /\ req'[r].pc # "idle") =>
                /\ Has(r, "variation_idx")'
                /\ req'[r].variation_idx = req[r].variation_idx
        /\ (req[r].pc = "increment" /\ req'[r].pc = "resolve") =>
                \A v \in DOMAIN variations :
                    Exposures(variations', v) = Exposures(variations, v)
                        + (IF v = req[r].variation_idx THEN 1 ELSE 0)
        /\ Has(r, "variation")' =>
                req'[r].variation = req'[r].variation_idx
        /\ Has(r, "items")' =>
                \A k \in 1..Len(req'[r].items) :
                    req'[r].items[k].experiment.variationIndex
                        = req'[r].variation_idx
        /\ Succeeded(r)' =>
                \A k \in 1..Len(req'[r].result.items) :
                    req'[r].result.items[k].experiment.variationIndex
                        = req'[r].variation_idx
        /\ Has(r, "event")' =>
                req'[r].event.attributes.variation_index
                    = req'[r].variation_idx
    ]_vars

\* A request that selected the second variation returned items and emitted
\* its exposure event.
C13_Witness ==
    \E r \in Requests :
        /\ Succeeded(r)
        /\ Has(r, "event")
        /\ req[r].variation_idx = 1
        /\ req[r].result.items # <<>>

\* C14: a call that passes validation makes one snapshot write attempt, no
\* more, and has made it once sampling is over.  The snapshot written holds,
\* for every variation and at the variation's index, the exposures and
\* conversions the loop read for this decision, taken before the request's
\* own increment (so between the loaded and the current count), and the theta
\* draws whose argmax is the selected index.
C14_OneSnapshotPerSelection ==
    [][\A r \in Requests :
        /\ Has(r, "calls")' =>
            /\ req'[r].calls.put_item <= 1
            /\ req'[r].pc = "read" => req'[r].calls.put_item = 0
            /\ (/\ req'[r].pc # "read"
                /\ req'[r].user_id # ""
                /\ VariationCount >= MinVariations)
                    => req'[r].calls.put_item = 1
        /\ (req[r].pc = "read" /\ req'[r].pc # "read") =>
            LET item == req'[r].sampling.item
                v == req'[r].variation_idx
            IN /\ req[r].calls.put_item = 0
               /\ req'[r].calls.increment = 0
               /\ req[r].i = VariationCount
               /\ DOMAIN item.exposures = DOMAIN variations
               /\ DOMAIN item.conversions = DOMAIN variations
               /\ DOMAIN item.theta = DOMAIN variations
               /\ item.exposures = req[r].exposures
               /\ item.conversions = req[r].conversions
               /\ \A i \in DOMAIN variations :
                    /\ item.exposures[i] >= Exposures(initial, i)
                    /\ item.exposures[i] <= Exposures(variations, i)
                    /\ item.conversions[i] = Get(variations[i], "conversions")
                    /\ item.theta[i] <= item.theta[v]
    ]_vars

\* A snapshot was written that holds a count another call had incremented.
C14_Witness ==
    \E r \in Requests :
        /\ req[r].pc = "increment"
        /\ req[r].put = "ok"
        /\ \E i \in DOMAIN variations :
            req[r].sampling.item.exposures[i] > Exposures(initial, i)

\* C15: the loop reads, for every variation i, the exposures and conversions
\* of its config, a missing count being read as 0, and the theta draw for i
\* is requested with the shape parameters (conversions[i] + 1,
\* exposures[i] + 1) of the counts read.
C15_BetaShapeParameters ==
    [][\A r \in Requests :
        /\ (req[r].pc = "read" /\ req'[r].pc = "read" /\ req'[r] # req[r]) =>
            LET i == req[r].i
                config == variations[i]
            IN /\ req'[r].i = i + 1
               /\ req'[r].exposures[i] =
                    (IF "exposures" \in DOMAIN config
                     THEN config["exposures"] ELSE 0)
               /\ req'[r].conversions[i] =
                    (IF "conversions" \in DOMAIN config
                     THEN config["conversions"] ELSE 0)
               /\ \A j \in DOMAIN variations \ {i} :
                    /\ req'[r].exposures[j] = req[r].exposures[j]
                    /\ req'[r].conversions[j] = req[r].conversions[j]
        /\ (req[r].pc = "read" /\ req'[r].pc # "read") =>
            /\ DOMAIN req'[r].sampling.params = DOMAIN variations
            /\ \A i \in DOMAIN variations :
                /\ req'[r].sampling.params[i].a = req[r].conversions[i] + 1
                /\ req'[r].sampling.params[i].b = req[r].exposures[i] + 1
    ]_vars

\* A draw was requested for a variation whose config has no conversions
\* count and whose exposures had been incremented: parameters (1, 2).
C15_Witness ==
    \E r \in Requests :
        /\ req[r].pc = "increment"
        /\ \E i \in DOMAIN variations :
            /\ "conversions" \notin DOMAIN variations[i]
            /\ req[r].sampling.params[i].a = 1
            /\ req[r].sampling.params[i].b = 2

\* C16: frame condition.  No step changes the list of variations or any
\* conversions count (each stays as loaded); an exposure count changes only
\* in the increment step of a request that selected that variation; and no
\* step of a request changes the exposure count of a variation the request
\* did not select.
C16_FrameCondition ==
    [][/\ DOMAIN variations' = DOMAIN variations
       /\ \A v \in DOMAIN variations :
            /\ ("conversions" \in DOMAIN variations'[v])
                 = ("conversions" \in DOMAIN initial[v])
            /\ Get(variations'[v], "conversions")
                 = Get(initial[v], "conversions")
            /\ Exposures(variations', v) # Exposures(variations, v) =>
                    \E r \in Requests :
                        /\ req[r].pc = "increment"
                        /\ req'[r].pc = "resolve"
                        /\ req[r].variation_idx = v
            /\ \A r \in Requests :
                    (/\ req'[r] # req[r]
                     /\ Has(r, "variation_idx") => req[r].variation_idx # v)
                        => Exposures(variations', v) = Exposures(variations, v)
    ]_vars

\* All calls are over, one of them failed, and one variation's exposure
\* count has changed while another's has not.
C16_Witness ==
    /\ \A r \in Requests : Done(r)
    /\ \E r \in Requests : Failed(r)
    /\ \E v1, v2 \in DOMAIN variations :
        /\ Exposures(variations, v1) > Exposures(initial, v1)
        /\ Exposures(variations, v2) = Exposures(initial, v2)

\* C17: when the chosen variation's resolver raises, the request ends in
\* error with the snapshot write attempted, the chosen variation's exposure
\* count incremented and left incremented (it counts this request among
\* those that incremented it), and no exposure event emitted.
C17_ResolverErrorKeepsIncrement ==
    \A r \in Requests :
        (Has(r, "resolved") /\ req[r].resolved.kind = "raise") =>
            LET v == req[r].variation_idx
            IN /\ Failed(r)
               /\ req[r].calls.put_item = 1
               /\ req[r].calls.increment = 1
               /\ r \in PastIncrement(v)
               /\ Exposures(variations, v)
                    = Exposures(initial, v) + Cardinality(PastIncrement(v))
               /\ req[r].calls.log_exposure = 0
               /\ ~Has(r, "event") /\ ~Has(r, "logged")

\* The resolver raised for the only call made, which was given a tracker,
\* and the chosen variation's count is one above the loaded count.
C17_Witness ==
    \E r \in Requests :
        /\ Has(r, "resolved") /\ req[r].resolved.kind = "raise"
        /\ req[r].tracker # NoTracker
        /\ \A q \in Requests \ {r} : req[q].pc = "idle"
        /\ Exposures(variations, req[r].variation_idx)
             = Exposures(initial, req[r].variation_idx) + 1

====
